---- MODULE Spec2Model ----
(***************************************************************************)
(* A model of tinyssh (internal/server): the session handler of one SSH    *)
(* session channel (session.go) and the listener / connection layer        *)
(* (server.go).                                                            *)
(*                                                                         *)
(* Spec        one session channel of an authenticated connection: the     *)
(*             request loop, start, the child, the reaper, the shutdown    *)
(*             watcher, the context watcher installed by                   *)
(*             exec.CommandContext and the byte pumps.                     *)
(* ServerSpec  Run, handleConnection and validateUser over several         *)
(*             connections, each session handler reduced to its blocking   *)
(*             points.                                                     *)
(* QuietSpec   ServerSpec with clients that stay idle after cancellation,  *)
(*             under the scheduler's fairness.                             *)
(***************************************************************************)
EXTENDS Integers, Sequences, FiniteSets, TLC

\* ------------------------------------------------------------------ bounds
MaxReq == 2        \* channel requests the client sends on the session channel
MaxOut == 1        \* bytes the child writes to its stdout / PTY
MaxConns == 1      \* connections the listener accepts
MaxChans == 2      \* channel opens over all connections
MaxLoads == 3      \* server runs (calls of loadOrCreateHostKey) on one path

\* ------------------------------------------------------------ input values
Sizes == {<<0, 0>>, <<80, 24>>, <<65536, 0>>}    \* uint32 cols, rows of a window-change
PtyPayloads ==                                     \* TERM, cols, rows of a pty-req
    { <<"", <<0, 0>> >>, <<"xterm", <<80, 24>> >>, <<"xterm", <<65536, 0>> >> }
Keys == {"", "LANG"}
Commands == {"", "echo hello"}
ExitCodes == {0, 1}
StartFailures == {"none", "pty", "pipe", "exec"}

SigNames ==
    { <<"S","I","G","I","N","T">>, <<"H","U","P">>, <<"S","I","G","S","I","G","H","U","P">>,
      <<"U","S","R","1">> }

\* ------------------------------------------------------------------- state
VARIABLES
    ctxDone,     \* the cancellation signal has fired
    \* --- locals of sessionHandler.handle
    env, cmd, ptmx, wantPTY, cols, rows, finished,
    hpc,         \* request loop: "loop", "done" (returned, deferred close ran)
    chanOpen,    \* the channel is open: its request stream has not closed
    nreq,        \* requests received so far
    last,        \* the request handled last and the reply it got
    chlog,       \* events on the channel, in order
    \* --- the child process
    child, term, sigs, nspawn, cArgs, ptySize, written, pending,
    \* --- goroutines of one session
    inPumps,     \* live channel -> child input pumps
    outPump,     \* PTY master -> channel pump
    copier,      \* os/exec's stdout pipe -> channel copier (no PTY)
    reaper, waitRes, exitSends, sentStatus,
    watcher,     \* shutdown watcher (SIGTERM on ctx.Done)
    ctxWatch,    \* exec.CommandContext's watcher (Process.Kill on ctx.Done)
    stale,       \* live input pumps spawned by a start that then failed
    lost,        \* chunks of client input a stale pump read and dropped
    unlocked,    \* <<activity, field>>: accesses made without holding mu
    \* --- Run / handleConnection
    runPc, listener, closer, wg, conns, chans, lastAuth,
    \* --- New / loadOrCreateHostKey
    hostKeyFile, \* the file at cfg.HostKeyPath
    nkeys,       \* keys generateHostKey has made so far
    loads        \* what each call of loadOrCreateHostKey did, in order

sessVars ==
    << env, cmd, ptmx, wantPTY, cols, rows, finished, hpc, chanOpen, nreq, last, chlog, child, term, sigs, nspawn, cArgs, ptySize,
       written, pending, inPumps, outPump, copier, reaper, waitRes,
       exitSends, sentStatus, watcher, ctxWatch, stale, lost, unlocked >>

srvVars == << runPc, listener, closer, wg, conns, chans, lastAuth >>

hkVars == << hostKeyFile, nkeys, loads >>

vars == << ctxDone, sessVars, srvVars, hkVars >>

User == "demo"
Shell == "/bin/sh"

\* handle, lines 31-35: the environment the session starts from
BaseEnv ==
    << <<"USER", User>>, <<"LOGNAME", User>>, <<"HOME", "/">>, <<"SHELL", Shell>> >>

NoReq == [type |-> "none", reply |-> "none", arg |-> << >>]
NoTerm == [kind |-> "none", code |-> 0]
NoRes == [kind |-> "none", code |-> 0]

SessInit ==
    /\ env = BaseEnv
    /\ cmd = "nil"
    /\ ptmx = "nil"
    /\ wantPTY = FALSE
    /\ cols = 0
    /\ rows = 0
    /\ finished = FALSE
    /\ hpc = "loop"
    /\ chanOpen = TRUE
    /\ nreq = 0
    /\ last = NoReq
    /\ chlog = << >>
    /\ child = "none"
    /\ term = NoTerm
    /\ sigs = {}
    /\ nspawn = 0
    /\ cArgs = << >>
    /\ ptySize = << 0, 0 >>
    /\ written = 0
    /\ pending = 0
    /\ inPumps = 0
    /\ outPump = "none"
    /\ copier = "none"
    /\ reaper = "none"
    /\ waitRes = NoRes
    /\ exitSends = 0
    /\ sentStatus = -1
    /\ watcher = "none"
    /\ ctxWatch = "none"
    /\ stale = 0
    /\ lost = 0
    /\ unlocked = {}

\* ----------------------------------------------------------------- helpers
\* req.Reply(v, nil) after `if req.WantReply`
Reply(want, v) == IF want THEN (IF v THEN "true" ELSE "false") ELSE "none"

\* uint16(x) of a uint32
Uint16(x) == x % 65536

\* strings.TrimPrefix
TrimPrefix(s, p) ==
    IF Len(s) >= Len(p) /\ SubSeq(s, 1, Len(p)) = p
    THEN SubSeq(s, Len(p) + 1, Len(s))
    ELSE s

\* sshSignalToOS, lines 273-289 ("nil": no signal)
sshSignalToOS_noTrim(signal) ==
    CASE signal = <<"I","N","T">> -> "SIGINT"
      [] signal = <<"T","E","R","M">> -> "SIGTERM"
      [] signal = <<"K","I","L","L">> -> "SIGKILL"
      [] signal = <<"Q","U","I","T">> -> "SIGQUIT"
      [] signal = <<"H","U","P">> -> "SIGHUP"
      [] OTHER -> "nil"

sshSignalToOS(signal) ==
    LET s == TrimPrefix(signal, <<"S","I","G">>)
    IN  CASE s = <<"I","N","T">> -> "SIGINT"
          [] s = <<"T","E","R","M">> -> "SIGTERM"
          [] s = <<"K","I","L","L">> -> "SIGKILL"
          [] s = <<"Q","U","I","T">> -> "SIGQUIT"
          [] s = <<"H","U","P">> -> "SIGHUP"
          [] OTHER -> "nil"

\* os.Process.Signal: delivered to a process that is still running; an exited
\* process returns an error, which the callers drop
Deliver(sig, by) == IF child = "running" THEN sigs \cup {<<sig, by>>} ELSE sigs

\* the request loop is at `for req := range h.requests` with a request there
Receiving == hpc = "loop" /\ chanOpen /\ nreq < MaxReq

\* `arg` is what the request carried: the size of a window-change, the name of
\* a signal, what the OS refuses to a shell / exec; << >> for a payload that
\* does not unmarshal and for the other requests
Handled(type, want, ok, arg) ==
    /\ nreq' = nreq + 1
    /\ last' = [type |-> type, reply |-> Reply(want, ok), arg |-> arg]

\* accesses to the session's fields made outside mu.Lock() / mu.Unlock()
Bare(by, fields) == unlocked \cup {<<by, f>> : f \in fields}

\* ------------------------------------------------------- start, lines 47-140
AlreadyRunning_never == FALSE

\* line 50: the guard of the single-commit rule
AlreadyRunning == cmd # "nil"

\* lines 56-59
Args(command) == IF command = "" THEN << >> ELSE << "-c", command >>

\* lines 69-80: the size the PTY is opened with; <<0, 0>> is pty.Start's
\* default size
Winsize ==
    << IF cols > 0 THEN Uint16(cols) ELSE 0, IF rows > 0 THEN Uint16(rows) ELSE 0 >>

\* the error start returns ("none": nil), `fail` being what the OS refuses
\* (pty.Start launches the process itself, so with a PTY a refused launch is
\* an error of pty.Start)
startErr_ignoresLaunch(fail) ==
    IF cmd # "nil" THEN "already"
    ELSE IF wantPTY THEN (IF fail = "pty" THEN "pty" ELSE "none")
    ELSE IF fail = "pipe" THEN "pipe"
    ELSE "none"

startErr(fail) ==
    IF AlreadyRunning THEN "already"
    ELSE IF wantPTY THEN (IF fail \in {"pty", "exec"} THEN "pty" ELSE "none")
    ELSE IF fail \in {"pipe", "exec"} THEN fail
    ELSE "none"

start(command, fail) ==
    LET err == startErr(fail) IN
    /\ ptmx' = IF err = "none" /\ wantPTY THEN "open"
               ELSE IF err = "pty" THEN "nil"
               ELSE ptmx
    /\ ptySize' = IF err = "none" /\ wantPTY THEN Winsize ELSE ptySize
    \* lines 86-91 (PTY) and 101-104 (no PTY, spawned before c.Start)
    /\ outPump' = IF err = "none" /\ wantPTY THEN "run" ELSE outPump
    /\ inPumps' = IF err = "none" \/ err = "exec" THEN inPumps + 1 ELSE inPumps
    \* lines 107-116: c.Start has failed, the pump of line 101 keeps running
    /\ stale' = IF err = "exec" THEN stale + 1 ELSE stale
    \* c.Stdout = h.channel is no *os.File: os/exec copies through a pipe
    /\ copier' = IF err = "none" /\ ~wantPTY THEN "run" ELSE copier
    /\ IF err = "none"
       THEN /\ cmd' = "set"
            /\ cArgs' = Args(command)
            /\ child' = "running"
            /\ nspawn' = nspawn + 1
            /\ watcher' = "wait"
            /\ reaper' = "wait"
            /\ ctxWatch' = "wait"
       ELSE UNCHANGED << cmd, cArgs, child, nspawn, watcher, reaper, ctxWatch >>

\* ------------------------------------------- the request loop, lines 142-251
\* case "pty-req", lines 144-167
PtyReq(ok, want, t, size) ==
    /\ Receiving
    /\ Handled("pty-req", want, ok, << >>)
    /\ IF ok
       THEN /\ wantPTY' = TRUE
            /\ cols' = size[1]
            /\ rows' = size[2]
            /\ env' = IF t # "" THEN Append(env, <<"TERM", t>>) ELSE env
            /\ unlocked' = Bare("loop", IF t # "" THEN {"wantPTY", "cols", "rows", "env"}
                                        ELSE {"wantPTY", "cols", "rows"})
       ELSE UNCHANGED << wantPTY, cols, rows, env, unlocked >>
    /\ UNCHANGED << ctxDone, stale, lost, cmd, ptmx, finished, hpc, chanOpen, chlog,
                    child, term, sigs, nspawn, cArgs, ptySize, written,
                    pending, inPumps, outPump, copier, reaper, waitRes,
                    exitSends, sentStatus, watcher, ctxWatch, srvVars, hkVars >>

\* case "env", lines 168-186
EnvReq(ok, want, k) ==
    /\ Receiving
    /\ Handled("env", want, ok /\ k # "", << >>)
    /\ env' = IF ok /\ k # "" THEN Append(env, <<k, "v">>) ELSE env
    /\ unlocked' = IF ok /\ k # "" THEN Bare("loop", {"env"}) ELSE unlocked
    /\ UNCHANGED << ctxDone, stale, lost, cmd, ptmx, wantPTY, cols, rows, finished, hpc,
                    chanOpen, chlog, child, term, sigs, nspawn, cArgs, ptySize, written, pending, inPumps, outPump, copier,
                    reaper, waitRes, exitSends, sentStatus, watcher, ctxWatch,
                    srvVars, hkVars >>

\* case "window-change", lines 187-203; pty.Setsize fails on a closed master
WindowChange(ok, want, size) ==
    /\ Receiving
    /\ Handled("window-change", want, TRUE, IF ok THEN size ELSE << >>)
    /\ unlocked' = Bare("loop", IF ptmx # "nil" /\ ok THEN {"ptmx", "cols", "rows"}
                                ELSE {"ptmx"})
    /\ IF ptmx # "nil" /\ ok
       THEN /\ cols' = size[1]
            /\ rows' = size[2]
            /\ ptySize' = IF ptmx = "open" THEN << Uint16(size[1]), Uint16(size[2]) >>
                          ELSE ptySize
       ELSE UNCHANGED << cols, rows, ptySize >>
    /\ UNCHANGED << ctxDone, stale, lost, env, cmd, ptmx, wantPTY, finished, hpc, chanOpen,
                    chlog, child, term, sigs, nspawn, cArgs,
                    written, pending, inPumps, outPump, copier, reaper, waitRes,
                    exitSends, sentStatus, watcher, ctxWatch, srvVars, hkVars >>

\* case "shell", lines 204-211
ShellReq(want, fail) ==
    /\ Receiving
    /\ Handled("shell", want, startErr(fail) = "none", <<fail>>)
    /\ start("", fail)
    /\ UNCHANGED << ctxDone, unlocked, lost, env, wantPTY, cols, rows, finished, hpc, chanOpen,
                    chlog, term, sigs, written, pending, waitRes,
                    exitSends, sentStatus, srvVars, hkVars >>

\* case "exec", lines 212-228
ExecReq(ok, want, command, fail) ==
    /\ Receiving
    /\ Handled("exec", want, ok /\ startErr(fail) = "none", IF ok THEN <<fail>> ELSE << >>)
    /\ IF ok
       THEN start(command, fail)
       ELSE UNCHANGED << cmd, ptmx, ptySize, outPump, inPumps, stale, copier, cArgs,
                         child, nspawn, watcher, reaper, ctxWatch >>
    /\ UNCHANGED << ctxDone, unlocked, lost, env, wantPTY, cols, rows, finished, hpc, chanOpen,
                    chlog, term, sigs, written, pending, waitRes,
                    exitSends, sentStatus, srvVars, hkVars >>

\* case "signal", lines 229-245
SignalReq(ok, want, name) ==
    /\ Receiving
    /\ Handled("signal", want, TRUE, IF ok THEN name ELSE << >>)
    /\ sigs' = IF ok /\ sshSignalToOS(name) # "nil" /\ cmd # "nil"
               THEN Deliver(sshSignalToOS(name), "request")
               ELSE sigs
    /\ UNCHANGED << ctxDone, unlocked, stale, lost, env, cmd, ptmx, wantPTY, cols, rows, finished, hpc,
                    chanOpen, chlog, child, term, nspawn, cArgs,
                    ptySize, written, pending, inPumps, outPump, copier, reaper,
                    waitRes, exitSends, sentStatus, watcher, ctxWatch, srvVars, hkVars >>

\* default, lines 246-249
OtherReq(want) ==
    /\ Receiving
    /\ Handled("other", want, FALSE, << >>)
    /\ UNCHANGED << ctxDone, unlocked, stale, lost, env, cmd, ptmx, wantPTY, cols, rows, finished, hpc,
                    chanOpen, chlog, child, term, sigs, nspawn, cArgs, ptySize, written, pending, inPumps, outPump, copier,
                    reaper, waitRes, exitSends, sentStatus, watcher, ctxWatch,
                    srvVars, hkVars >>

\* the request stream closes (the client closes the channel, or the connection
\* ends); line 142's range ends, handle returns and its deferred
\* CloseWrite / Close run, lines 26-29
HandleReturn ==
    /\ hpc = "loop"
    /\ ~chanOpen
    /\ hpc' = "done"
    /\ chlog' = Append(chlog, "server-close")
    /\ UNCHANGED << ctxDone, unlocked, stale, lost, env, cmd, ptmx, wantPTY, cols, rows, finished,
                    chanOpen, nreq, last, child, term, sigs, nspawn,
                    cArgs, ptySize, written, pending, inPumps, outPump,
                    copier, reaper, waitRes, exitSends, sentStatus, watcher,
                    ctxWatch, srvVars, hkVars >>

\* --------------------------------------------------------------- the client
\* the client closes the channel (or the connection ends): ssh's channel.close
\* closes the request stream and fails every later write and request
ClientClose ==
    /\ chanOpen
    /\ chanOpen' = FALSE
    /\ chlog' = Append(chlog, "client-close")
    /\ UNCHANGED << ctxDone, unlocked, stale, lost, env, cmd, ptmx, wantPTY, cols, rows, finished, hpc,
                    nreq, last, child, term, sigs, nspawn, cArgs, ptySize,
                    written, pending, inPumps, outPump, copier, reaper, waitRes,
                    exitSends, sentStatus, watcher, ctxWatch, srvVars, hkVars >>

\* ---------------------------------------------------------------- the child
ChildWrite ==
    /\ child = "running"
    /\ written < MaxOut
    /\ written' = written + 1
    /\ pending' = pending + 1
    /\ UNCHANGED << ctxDone, unlocked, stale, lost, env, cmd, ptmx, wantPTY, cols, rows, finished, hpc,
                    chanOpen, nreq, last, chlog, child, term, sigs,
                    nspawn, cArgs, ptySize, inPumps, outPump, copier,
                    reaper, waitRes, exitSends, sentStatus, watcher, ctxWatch,
                    srvVars, hkVars >>

ChildExit(code) ==
    /\ child = "running"
    /\ child' = "exited"
    /\ term' = [kind |-> "exit", code |-> code]
    /\ UNCHANGED << ctxDone, unlocked, stale, lost, env, cmd, ptmx, wantPTY, cols, rows, finished, hpc,
                    chanOpen, nreq, last, chlog, sigs, nspawn, cArgs, ptySize, written, pending, inPumps, outPump, copier,
                    reaper, waitRes, exitSends, sentStatus, watcher, ctxWatch,
                    srvVars, hkVars >>

\* a delivered signal ends the child
ChildKilled ==
    /\ child = "running"
    /\ sigs # {}
    /\ child' = "exited"
    /\ term' = [kind |-> "signal", code |-> 0]
    /\ UNCHANGED << ctxDone, unlocked, stale, lost, env, cmd, ptmx, wantPTY, cols, rows, finished, hpc,
                    chanOpen, nreq, last, chlog, sigs, nspawn, cArgs, ptySize, written, pending, inPumps, outPump, copier,
                    reaper, waitRes, exitSends, sentStatus, watcher, ctxWatch,
                    srvVars, hkVars >>

\* ------------------------------------------------------------ the byte pumps
\* os/exec's goroutine for c.Stdout = h.channel (line 94): io.Copy from the
\* stdout pipe to the channel; a write on a closed channel fails and ends it
CopierStep ==
    /\ copier = "run"
    /\ pending > 0
    /\ IF chanOpen
       THEN /\ pending' = pending - 1
            /\ chlog' = Append(chlog, "out")
            /\ UNCHANGED copier
       ELSE /\ copier' = "err"
            /\ UNCHANGED << pending, chlog >>
    /\ UNCHANGED << ctxDone, unlocked, stale, lost, env, cmd, ptmx, wantPTY, cols, rows, finished, hpc,
                    chanOpen, nreq, last, child, term, sigs, nspawn,
                    cArgs, ptySize, written, inPumps, outPump, reaper,
                    waitRes, exitSends, sentStatus, watcher, ctxWatch, srvVars, hkVars >>

\* the pipe reads EOF: the child has exited and the pipe is drained
CopierEOF ==
    /\ copier = "run"
    /\ pending = 0
    /\ child = "exited"
    /\ copier' = "done"
    /\ UNCHANGED << ctxDone, unlocked, stale, lost, env, cmd, ptmx, wantPTY, cols, rows, finished, hpc,
                    chanOpen, nreq, last, chlog, child, term, sigs,
                    nspawn, cArgs, ptySize, written, pending, inPumps,
                    outPump, reaper, waitRes, exitSends, sentStatus, watcher,
                    ctxWatch, srvVars, hkVars >>

\* lines 86-88: io.Copy(h.channel, ptmx)
OutPumpStep ==
    /\ outPump = "run"
    /\ ptmx = "open"
    /\ pending > 0
    /\ IF chanOpen
       THEN /\ pending' = pending - 1
            /\ chlog' = Append(chlog, "out")
            /\ UNCHANGED outPump
       ELSE /\ outPump' = "done"
            /\ UNCHANGED << pending, chlog >>
    /\ UNCHANGED << ctxDone, unlocked, stale, lost, env, cmd, ptmx, wantPTY, cols, rows, finished, hpc,
                    chanOpen, nreq, last, child, term, sigs, nspawn,
                    cArgs, ptySize, written, inPumps, copier, reaper,
                    waitRes, exitSends, sentStatus, watcher, ctxWatch, srvVars, hkVars >>

\* the read of the PTY master fails: the master was closed, or the child has
\* exited and nothing is left to read
OutPumpEnd ==
    /\ outPump = "run"
    /\ ptmx = "closed" \/ (child = "exited" /\ pending = 0)
    /\ outPump' = "done"
    /\ UNCHANGED << ctxDone, unlocked, stale, lost, env, cmd, ptmx, wantPTY, cols, rows, finished, hpc,
                    chanOpen, nreq, last, chlog, child, term, sigs,
                    nspawn, cArgs, ptySize, written, pending, inPumps,
                    copier, reaper, waitRes, exitSends, sentStatus, watcher,
                    ctxWatch, srvVars, hkVars >>

\* lines 89-91 and 101-104: an input pump reads EOF from the channel
InPumpEnd ==
    /\ inPumps > 0
    /\ ~chanOpen
    /\ inPumps' = inPumps - 1
    /\ \E s \in {0, 1} :
          /\ s <= stale
          /\ 1 - s <= inPumps - stale
          /\ stale' = stale - s
    /\ UNCHANGED << ctxDone, unlocked, lost, env, cmd, ptmx, wantPTY, cols, rows, finished, hpc,
                    chanOpen, nreq, last, chlog, child, term, sigs,
                    nspawn, cArgs, ptySize, written, pending, outPump,
                    copier, reaper, waitRes, exitSends, sentStatus, watcher,
                    ctxWatch, srvVars, hkVars >>

\* lines 101-104 after a failed c.Start: os/exec has closed the write end of
\* the stdin pipe, so the pump reads a chunk of client input from the channel,
\* fails to write it and ends
InPumpDrop ==
    /\ stale > 0
    /\ chanOpen
    /\ stale' = stale - 1
    /\ inPumps' = inPumps - 1
    /\ lost' = lost + 1
    /\ UNCHANGED << ctxDone, unlocked, env, cmd, ptmx, wantPTY, cols, rows, finished,
                    hpc, chanOpen, nreq, last, chlog, child, term, sigs, nspawn,
                    cArgs, ptySize, written, pending, outPump, copier, reaper,
                    waitRes, exitSends, sentStatus, watcher, ctxWatch, srvVars,
                    hkVars >>

\* ------------------------------------------------- the reaper, lines 129-137
WaitDone_ignoresChild == copier # "run"

WaitDone_ignoresCopier == child = "exited"

\* c.Wait() returns once the child has exited and os/exec's copier is done
WaitDone == child = "exited" /\ copier # "run"

\* the error c.Wait() returns
WaitResult ==
    IF term.kind = "signal" THEN [kind |-> "ExitError", code |-> -1]
    ELSE IF term.code # 0 THEN [kind |-> "ExitError", code |-> term.code]
    ELSE IF copier = "err" THEN [kind |-> "other", code |-> 0]
    ELSE [kind |-> "nil", code |-> 0]

sendExitStatus_rawCode(err) ==
    IF err.kind = "nil" THEN 0
    ELSE IF err.kind = "ExitError" THEN err.code
    ELSE 255

\* sendExitStatus, lines 255-266: the status of a wait result; an exit code
\* is a wait status byte, so uint32(code) keeps it
sendExitStatus(err) ==
    IF err.kind = "nil" THEN 0
    ELSE IF err.kind = "ExitError"
         THEN (IF err.code >= 0 THEN err.code ELSE 255)
         ELSE 255

\* lines 129-137: c.Wait() returns (and stops os/exec's context watcher), then
\* finished.Do; SendRequest fails on a closed channel
Reaper ==
    /\ reaper = "wait"
    /\ WaitDone
    /\ reaper' = "done"
    /\ waitRes' = WaitResult
    /\ ctxWatch' = IF ctxWatch = "wait" THEN "done" ELSE ctxWatch
    /\ IF ~finished
       THEN /\ finished' = TRUE
            /\ exitSends' = exitSends + 1
            /\ sentStatus' = sendExitStatus(WaitResult)
            /\ chlog' = IF chanOpen THEN Append(chlog, "exit-status") ELSE chlog
            /\ ptmx' = IF ptmx # "nil" THEN "closed" ELSE ptmx
            /\ unlocked' = Bare("reaper", {"ptmx"})
       ELSE UNCHANGED << finished, exitSends, sentStatus, chlog, ptmx, unlocked >>
    /\ UNCHANGED << ctxDone, stale, lost, env, cmd, wantPTY, cols, rows, hpc, chanOpen,
                    nreq, last, child, term, sigs, nspawn, cArgs,
                    ptySize, written, pending, inPumps, outPump, copier,
                    watcher, srvVars, hkVars >>

\* ------------------------------------------------------------- cancellation
Cancel ==
    /\ ~ctxDone
    /\ ctxDone' = TRUE
    /\ UNCHANGED << sessVars, srvVars, hkVars >>

\* the shutdown watcher, lines 120-127
Watcher ==
    /\ watcher = "wait"
    /\ ctxDone
    /\ watcher' = "done"
    /\ sigs' = IF cmd # "nil" THEN Deliver("SIGTERM", "watcher") ELSE sigs
    /\ UNCHANGED << ctxDone, unlocked, stale, lost, env, cmd, ptmx, wantPTY, cols, rows, finished, hpc,
                    chanOpen, nreq, last, chlog, child, term, nspawn,
                    cArgs, ptySize, written, pending, inPumps, outPump,
                    copier, reaper, waitRes, exitSends, sentStatus, ctxWatch,
                    srvVars, hkVars >>

\* line 61: a command made by exec.CommandContext is killed (os.Process.Kill)
\* when ctx is done before Wait has returned
CtxKill ==
    /\ ctxWatch = "wait"
    /\ ctxDone
    /\ reaper = "wait"
    /\ ctxWatch' = "done"
    /\ sigs' = Deliver("SIGKILL", "CommandContext")
    /\ UNCHANGED << ctxDone, unlocked, stale, lost, env, cmd, ptmx, wantPTY, cols, rows, finished, hpc,
                    chanOpen, nreq, last, chlog, child, term, nspawn,
                    cArgs, ptySize, written, pending, inPumps, outPump,
                    copier, reaper, waitRes, exitSends, sentStatus, watcher,
                    srvVars, hkVars >>

\* ---------------------------------------------------- Run / handleConnection
\* Config.Credentials (the configured users), passwords as byte strings
Creds == [demo |-> <<112, 119>>, admin |-> <<120, 121>>]

\* the password attempts a client makes: <<user, password>>
Attempts ==
    { <<"demo", <<112, 119>> >>, <<"demo", <<120, 121>> >>, <<"demo", <<112>> >>,
      <<"admin", <<112, 119>> >>, <<"eve", <<112, 119>> >> }

ChanTypes == {"session", "direct-tcpip"}

NoAuth == [user |-> "", password |-> << >>, err |-> "none"]

SrvInit ==
    /\ runPc = "accept"
    /\ listener = "open"
    /\ closer = "wait"
    /\ wg = 0
    /\ conns = << >>
    /\ chans = << >>
    /\ lastAuth = NoAuth

\* subtle.ConstantTimeCompare: 1 iff the lengths agree and no byte differs
RECURSIVE OrXor(_, _, _)
OrXor(x, y, i) ==
    IF i > Len(x) THEN 0
    ELSE IF x[i] # y[i] THEN 1
    ELSE OrXor(x, y, i + 1)

ConstantTimeCompare(x, y) ==
    IF Len(x) # Len(y) THEN 0
    ELSE IF OrXor(x, y, 1) = 0 THEN 1 ELSE 0

validateUser_skipsCompare(user, password) ==
    IF user \notin DOMAIN Creds THEN "unknown user" ELSE "nil"

\* validateUser, lines 109-118: the error it returns ("nil": accepted)
validateUser(user, password) ==
    IF user \notin DOMAIN Creds THEN "unknown user"
    ELSE IF ConstantTimeCompare(Creds[user], password) # 1 THEN "invalid credentials"
    ELSE "nil"

\* Run, lines 82-102: Accept returns a connection; its handler goroutine starts
\* in ssh.NewServerConn (line 125)
Accept ==
    /\ runPc = "accept"
    /\ listener = "open"
    /\ Len(conns) < MaxConns
    /\ conns' = Append(conns, [pc |-> "handshake", alive |-> TRUE,
                              user |-> "", password |-> << >>])
    /\ wg' = wg + 1
    /\ UNCHANGED << ctxDone, sessVars, hkVars, runPc, listener, closer, chans, lastAuth >>

\* lines 88-92: a temporary accept error, then the 100 ms sleep
AcceptTemporary ==
    /\ runPc = "accept"
    /\ listener = "open"
    /\ ~ctxDone
    /\ runPc' = "backoff"
    /\ UNCHANGED << ctxDone, sessVars, hkVars, listener, closer, wg, conns, chans,
                    lastAuth >>

Backoff ==
    /\ runPc = "backoff"
    /\ runPc' = "accept"
    /\ UNCHANGED << ctxDone, sessVars, hkVars, listener, closer, wg, conns, chans,
                    lastAuth >>

\* line 93: any other accept error ends Run, which joins nothing; the deferred
\* listener.Close runs (lines 69-73)
AcceptFatal ==
    /\ runPc = "accept"
    /\ listener = "open"
    /\ ~ctxDone
    /\ runPc' = "failed"
    /\ listener' = "closed"
    /\ UNCHANGED << ctxDone, sessVars, hkVars, closer, wg, conns, chans, lastAuth >>

\* lines 77-80
Closer ==
    /\ closer = "wait"
    /\ ctxDone
    /\ closer' = "done"
    /\ listener' = "closed"
    /\ UNCHANGED << ctxDone, sessVars, hkVars, runPc, wg, conns, chans, lastAuth >>

\* lines 84-87: Accept fails on the closed listener and ctx.Err() is set
AcceptBreak ==
    /\ runPc = "accept"
    /\ listener = "closed"
    /\ ctxDone
    /\ runPc' = "wait"
    /\ UNCHANGED << ctxDone, sessVars, hkVars, listener, closer, wg, conns, chans,
                    lastAuth >>

\* lines 105-106: wg.Wait() returns, Run returns nil
RunReturn ==
    /\ runPc = "wait"
    /\ wg = 0
    /\ runPc' = "returned"
    /\ UNCHANGED << ctxDone, sessVars, hkVars, listener, closer, wg, conns, chans,
                    lastAuth >>

\* the handshake of connection c calls the password callback (line 58)
Password(c, user, password) ==
    /\ conns[c].pc = "handshake"
    /\ conns[c].alive
    /\ lastAuth' = [user |-> user, password |-> password,
                    err |-> validateUser(user, password)]
    /\ conns' = IF validateUser(user, password) = "nil"
                THEN [conns EXCEPT ![c].pc = "serve", ![c].user = user,
                                   ![c].password = password]
                ELSE conns
    /\ UNCHANGED << ctxDone, sessVars, hkVars, runPc, listener, closer, wg, chans >>

\* lines 125-128: the handshake fails (the client gives up or is refused);
\* handleConnection returns the error, the goroutine ends (wg.Done, line 98)
HandshakeFailed(c) ==
    /\ conns[c].pc = "handshake"
    /\ conns' = [conns EXCEPT ![c].pc = "failed", ![c].alive = FALSE]
    /\ wg' = wg - 1
    /\ UNCHANGED << ctxDone, sessVars, hkVars, runPc, listener, closer, chans, lastAuth >>

IsSession_any(type) == TRUE

\* line 134: newChannel.ChannelType() != "session" is rejected
IsSession(type) == type = "session"

\* lines 133-153: one channel open; a session channel gets a handler goroutine
\* (line 152), which nothing waits for
ChannelOpen(c, type, acceptErr) ==
    /\ conns[c].pc = "serve"
    /\ conns[c].alive
    /\ Len(chans) < MaxChans
    /\ chans' = Append(chans,
                  IF ~IsSession(type)
                  THEN [conn |-> c, type |-> type, result |-> "rejected",
                        h |-> "none", open |-> FALSE, child |-> "none"]
                  ELSE IF acceptErr
                  THEN [conn |-> c, type |-> type, result |-> "error",
                        h |-> "none", open |-> FALSE, child |-> "none"]
                  ELSE [conn |-> c, type |-> type, result |-> "accepted",
                        h |-> "loop", open |-> TRUE, child |-> "none"])
    /\ UNCHANGED << ctxDone, sessVars, hkVars, runPc, listener, closer, wg, conns,
                    lastAuth >>

\* the client disconnects: the channels stream and every channel's request
\* stream close
Disconnect(c) ==
    /\ conns[c].pc = "serve"
    /\ conns[c].alive
    /\ conns' = [conns EXCEPT ![c].alive = FALSE]
    /\ chans' = [k \in DOMAIN chans |->
                   IF chans[k].conn = c THEN [chans[k] EXCEPT !.open = FALSE]
                   ELSE chans[k]]
    /\ UNCHANGED << ctxDone, sessVars, hkVars, runPc, listener, closer, wg, lastAuth >>

\* the client closes one session channel
ChannelClose(k) ==
    /\ chans[k].open
    /\ chans' = [chans EXCEPT ![k].open = FALSE]
    /\ UNCHANGED << ctxDone, sessVars, hkVars, runPc, listener, closer, wg, conns,
                    lastAuth >>

\* lines 133, 155-156: the channels stream has closed, handleConnection returns
ConnReturn(c) ==
    /\ conns[c].pc = "serve"
    /\ ~conns[c].alive
    /\ conns' = [conns EXCEPT ![c].pc = "returned"]
    /\ wg' = wg - 1
    /\ UNCHANGED << ctxDone, sessVars, hkVars, runPc, listener, closer, chans, lastAuth >>

\* --- the session handler of channel k at its blocking points (session.go)
\* a shell or exec request starts the child (lines 204-228, 47-140)
SessStart(k) ==
    /\ chans[k].h = "loop"
    /\ chans[k].open
    /\ chans[k].child = "none"
    /\ chans' = [chans EXCEPT ![k].child = "running"]
    /\ UNCHANGED << ctxDone, sessVars, hkVars, runPc, listener, closer, wg, conns,
                    lastAuth >>

\* lines 61, 120-127: on ctx.Done the child is signalled, and terminates
SessTerminate(k) ==
    /\ chans[k].child = "running"
    /\ ctxDone
    /\ chans' = [chans EXCEPT ![k].child = "exited"]
    /\ UNCHANGED << ctxDone, sessVars, hkVars, runPc, listener, closer, wg, conns,
                    lastAuth >>

\* the child exits by itself
SessChildExit(k) ==
    /\ chans[k].child = "running"
    /\ chans' = [chans EXCEPT ![k].child = "exited"]
    /\ UNCHANGED << ctxDone, sessVars, hkVars, runPc, listener, closer, wg, conns,
                    lastAuth >>

\* lines 142, 251, 26-29: the request stream has closed, handle returns
SessReturn(k) ==
    /\ chans[k].h = "loop"
    /\ ~chans[k].open
    /\ chans' = [chans EXCEPT ![k].h = "done"]
    /\ UNCHANGED << ctxDone, sessVars, hkVars, runPc, listener, closer, wg, conns,
                    lastAuth >>

\* ------------------------------------- loadOrCreateHostKey, lines 159-185
\* the file at the path: key = 0 is no file; `whole` is false for a file that
\* a failed write left truncated
NoFile == [key |-> 0, whole |-> FALSE]

HkInit ==
    /\ hostKeyFile = NoFile
    /\ nkeys = 0
    /\ loads = << >>

\* what the OS refuses during one call
HostKeyFailures == {"none", "mkdir", "read", "generate", "create", "write"}

\* os.ReadFile, line 164: the error it returns
ReadFile(fail) ==
    IF fail = "read" THEN "EACCES"
    ELSE IF hostKeyFile = NoFile THEN "ErrNotExist"
    ELSE "nil"

IsNotExist_anyError(err) == err # "nil"

\* line 166: errors.Is(err, os.ErrNotExist)
IsNotExist(err) == err = "ErrNotExist"

\* os.WriteFile, line 171 (O_CREATE|O_TRUNC): the file it leaves
WriteFile(key, fail) ==
    IF fail = "create" THEN hostKeyFile
    ELSE IF fail = "write" THEN [key |-> key, whole |-> FALSE]
    ELSE [key |-> key, whole |-> TRUE]

\* one server run: New calls loadOrCreateHostKey(cfg.HostKeyPath), line 42
loadOrCreateHostKey(fail) ==
    LET err == ReadFile(fail)
        create == fail # "mkdir" /\ err # "nil" /\ IsNotExist(err)
        generated == create /\ fail # "generate"
        key == nkeys + 1
        stored == generated /\ fail \notin {"create", "write"}
        \* pemBytes: the bytes read, or the bytes generated and written
        pem == IF stored THEN [key |-> key, whole |-> TRUE]
               ELSE IF fail # "mkdir" /\ err = "nil" THEN hostKeyFile
               ELSE NoFile
        \* ssh.ParsePrivateKey, line 179
        signer == IF pem.whole THEN pem.key ELSE 0
    IN  /\ Len(loads) < MaxLoads
        /\ nkeys' = IF generated THEN key ELSE nkeys
        /\ hostKeyFile' = IF generated THEN WriteFile(key, fail) ELSE hostKeyFile
        /\ loads' = Append(loads, [fail |-> fail, found |-> hostKeyFile,
                                   wrote |-> generated /\ fail # "create",
                                   signer |-> signer])
        /\ UNCHANGED << ctxDone, sessVars, srvVars >>

Init == ctxDone = FALSE /\ SessInit /\ SrvInit /\ HkInit

Next ==
    \/ \E ok, want \in BOOLEAN, p \in PtyPayloads : PtyReq(ok, want, p[1], p[2])
    \/ \E ok, want \in BOOLEAN, k \in Keys : EnvReq(ok, want, k)
    \/ \E ok, want \in BOOLEAN, size \in Sizes : WindowChange(ok, want, size)
    \/ \E want \in BOOLEAN, fail \in StartFailures : ShellReq(want, fail)
    \/ \E ok, want \in BOOLEAN, command \in Commands, fail \in StartFailures :
          ExecReq(ok, want, command, fail)
    \/ \E ok, want \in BOOLEAN, name \in SigNames : SignalReq(ok, want, name)
    \/ \E want \in BOOLEAN : OtherReq(want)
    \/ HandleReturn
    \/ ClientClose
    \/ ChildWrite
    \/ \E code \in ExitCodes : ChildExit(code)
    \/ ChildKilled
    \/ CopierStep
    \/ CopierEOF
    \/ OutPumpStep
    \/ OutPumpEnd
    \/ InPumpEnd
    \/ InPumpDrop
    \/ Reaper
    \/ Cancel
    \/ Watcher
    \/ CtxKill

Spec == Init /\ [][Next]_vars

\* the Go scheduler runs every runnable goroutine and a signalled child
\* terminates; what the client, the child and the operator do is left free
SessFairness ==
    /\ WF_vars(HandleReturn)
    /\ WF_vars(ChildKilled)
    /\ WF_vars(CopierStep)
    /\ WF_vars(CopierEOF)
    /\ WF_vars(OutPumpStep)
    /\ WF_vars(OutPumpEnd)
    /\ WF_vars(InPumpEnd)
    /\ WF_vars(Reaper)
    /\ WF_vars(Watcher)
    /\ WF_vars(CtxKill)

LiveSpec == Init /\ [][Next]_vars /\ SessFairness

ServerNext ==
    \/ Cancel
    \/ Accept
    \/ AcceptTemporary
    \/ Backoff
    \/ AcceptFatal
    \/ Closer
    \/ AcceptBreak
    \/ RunReturn
    \/ \E c \in DOMAIN conns, a \in Attempts : Password(c, a[1], a[2])
    \/ \E c \in DOMAIN conns : HandshakeFailed(c)
    \/ \E c \in DOMAIN conns, type \in ChanTypes, acceptErr \in BOOLEAN :
          ChannelOpen(c, type, acceptErr)
    \/ \E c \in DOMAIN conns : Disconnect(c)
    \/ \E c \in DOMAIN conns : ConnReturn(c)
    \/ \E k \in DOMAIN chans : ChannelClose(k)
    \/ \E k \in DOMAIN chans : SessStart(k)
    \/ \E k \in DOMAIN chans : SessTerminate(k)
    \/ \E k \in DOMAIN chans : SessChildExit(k)
    \/ \E k \in DOMAIN chans : SessReturn(k)

ServerSpec == Init /\ [][ServerNext]_vars

\* the Go scheduler runs every runnable goroutine, and a signalled child
\* terminates; what clients and the operator do is left free
ServerFairness ==
    /\ WF_vars(Closer)
    /\ WF_vars(AcceptBreak)
    /\ WF_vars(Backoff)
    /\ WF_vars(RunReturn)
    /\ \A c \in 1..MaxConns : WF_vars(c \in DOMAIN conns /\ ConnReturn(c))
    /\ \A k \in 1..MaxChans :
          /\ WF_vars(k \in DOMAIN chans /\ SessTerminate(k))
          /\ WF_vars(k \in DOMAIN chans /\ SessReturn(k))

\* the same server with clients that do nothing more once the cancellation
\* signal has fired
QuietNext ==
    \/ Cancel
    \/ Backoff
    \/ Closer
    \/ AcceptBreak
    \/ RunReturn
    \/ \E c \in DOMAIN conns : ConnReturn(c)
    \/ \E k \in DOMAIN chans : SessTerminate(k)
    \/ \E k \in DOMAIN chans : SessChildExit(k)
    \/ \E k \in DOMAIN chans : SessReturn(k)
    \/ ~ctxDone /\ Accept
    \/ ~ctxDone /\ AcceptTemporary
    \/ ~ctxDone /\ AcceptFatal
    \/ ~ctxDone /\ \E c \in DOMAIN conns, a \in Attempts : Password(c, a[1], a[2])
    \/ ~ctxDone /\ \E c \in DOMAIN conns : HandshakeFailed(c)
    \/ ~ctxDone /\ \E c \in DOMAIN conns, type \in ChanTypes, acceptErr \in BOOLEAN :
                      ChannelOpen(c, type, acceptErr)
    \/ ~ctxDone /\ \E c \in DOMAIN conns : Disconnect(c)
    \/ ~ctxDone /\ \E k \in DOMAIN chans : ChannelClose(k)
    \/ ~ctxDone /\ \E k \in DOMAIN chans : SessStart(k)

QuietSpec == Init /\ [][QuietNext]_vars /\ ServerFairness

\* a sequence of server runs on one host-key path
HostKeyNext == \E fail \in HostKeyFailures : loadOrCreateHostKey(fail)

HostKeySpec == Init /\ [][HostKeyNext]_vars

\* ================================================================== claims
\* C1: exit-status is sent at most once, and never before the reaper's wait on
\* the child has returned (the child has terminated).
C1_ExitStatusOnceAfterExit ==
    /\ exitSends <= 1
    /\ exitSends > 0 => (child = "exited" /\ reaper = "done" /\ finished)

C1_Witness ==
    /\ exitSends = 1
    /\ last.type = "signal"
    /\ ctxDone
    /\ "exit-status" \in {chlog[i] : i \in DOMAIN chlog}

\* C2: at most one shell / exec spawns a child and is replied true; once the
\* session has started it stays started, and every later shell / exec spawns
\* no child and is not replied true.
C2_SingleCommit ==
    /\ [](nspawn <= 1 /\ (cmd # "nil" <=> nspawn = 1))
    /\ [][ /\ cmd # "nil" => (cmd' # "nil" /\ nspawn' = nspawn)
           /\ (nreq' # nreq /\ last'.type \in {"shell", "exec"} /\ last'.reply = "true")
                 => (cmd = "nil" /\ nspawn' = nspawn + 1)
           /\ (nreq' # nreq /\ last'.type \in {"shell", "exec"} /\ cmd # "nil")
                 => last'.reply \in {"false", "none"} ]_vars

C2_Witness ==
    /\ nspawn = 1
    /\ child = "running"
    /\ last.type = "shell"
    /\ last.reply = "false"

\* C3: a password attempt is accepted iff the user is configured and the
\* password is the configured one; every other attempt gets an error, and only
\* a connection whose attempt was accepted ever has a channel opened on it.
Valid(user, password) == user \in DOMAIN Creds /\ password = Creds[user]

Authenticated(c) == conns[c].pc \in {"serve", "returned"}

C3_PasswordAuth ==
    /\ lastAuth # NoAuth =>
          /\ (lastAuth.err = "nil") <=> Valid(lastAuth.user, lastAuth.password)
          /\ lastAuth.err \in {"nil", "unknown user", "invalid credentials"}
          /\ (lastAuth.user \notin DOMAIN Creds) => lastAuth.err = "unknown user"
    /\ \A c \in DOMAIN conns :
          Authenticated(c) => Valid(conns[c].user, conns[c].password)
    /\ \A k \in DOMAIN chans : Authenticated(chans[k].conn)

C3_Witness ==
    /\ lastAuth.user = "demo"
    /\ lastAuth.err = "invalid credentials"
    /\ \E c \in DOMAIN conns : conns[c].pc = "failed"

\* C4: on cancellation the only signal the server delivers to the child is
\* SIGTERM; it never sends SIGKILL.
C4_OnlySigterm ==
    \A s \in sigs : s[2] \in {"watcher", "CommandContext"} => s[1] = "SIGTERM"

\* C5: once the cancellation signal has fired while Run is serving and a child
\* is running in a session whose client does nothing more, Run eventually
\* returns nil.
C5_ShutdownReturns ==
    (/\ ctxDone
     /\ runPc # "failed"
     /\ \E k \in DOMAIN chans : chans[k].open /\ chans[k].child = "running")
        ~> (runPc = "returned")

\* C6: when handleConnection has returned, every session handler it spawned
\* has finished; when Run has returned nil, no session handler is running.
C6_HandlersJoined ==
    /\ \A k \in DOMAIN chans :
          conns[chans[k].conn].pc = "returned" => chans[k].h # "loop"
    /\ runPc = "returned" => \A k \in DOMAIN chans : chans[k].h # "loop"

\* C7: a session in which a child was started is destroyed (handle returns and
\* closes the channel) only after the child has exited and the request stream
\* has closed.
C7_DestroyAfterExitAndClose ==
    (hpc = "done" /\ cmd # "nil") => (child = "exited" /\ ~chanOpen)

\* C8: in a session started without a PTY, when exit-status is delivered every
\* byte the child wrote has been delivered before it, and nothing but the
\* closing of the channel follows it.
C8_StdoutThenExitThenClose ==
    (cmd # "nil" /\ ptmx = "nil" /\ \E i \in DOMAIN chlog : chlog[i] = "exit-status") =>
        LET i == CHOOSE n \in DOMAIN chlog : chlog[n] = "exit-status" IN
        /\ i = written + 1
        /\ \A j \in 1..(i - 1) : chlog[j] = "out"
        /\ \A j \in (i + 1)..Len(chlog) : chlog[j] \in {"client-close", "server-close"}
        /\ pending = 0

C8_Witness ==
    /\ cArgs = << "-c", "echo hello" >>
    /\ ptmx = "nil"
    /\ written = 1
    /\ chlog = << "out", "exit-status", "client-close", "server-close" >>

\* C9: the status sent is the exit code of a child that exited normally, and
\* 255 for a child ended by a signal or any other wait error.
C9_StatusMapping ==
    exitSends > 0 =>
        /\ (term.kind = "exit" /\ waitRes.kind # "other") => sentStatus = term.code
        /\ term.kind = "signal" => sentStatus = 255
        /\ waitRes.kind = "other" => sentStatus = 255
        /\ waitRes.kind = "nil" => (term = [kind |-> "exit", code |-> 0] /\ sentStatus = 0)

C9_Witness ==
    /\ exitSends = 1
    /\ term.kind = "signal"
    /\ sentStatus = 255

\* C10: after a successful shell / exec, a pty-req or env request leaves
\* pty_requested, cols, rows and env unchanged and is not replied true.
C10_PreStartOnly ==
    [][ (cmd # "nil" /\ nreq' # nreq /\ last'.type \in {"pty-req", "env"})
            => (last'.reply # "true" /\ UNCHANGED << wantPTY, cols, rows, env >>) ]_vars

\* C11: once the child has terminated and exit-status has been reported, every
\* request that asks for a reply is replied false, whatever its type.
C11_ExitedRepliesFalse ==
    [][ (exitSends > 0 /\ nreq' # nreq /\ last'.reply # "none")
            => last'.reply = "false" ]_vars

\* C12: a well-formed window-change always records its cols / rows, also
\* before shell / exec; an open PTY master gets the new size; the reply is
\* never false.
C12_WindowChangeAnyTime ==
    (last.type = "window-change" /\ last.arg # << >>) =>
        /\ cols = last.arg[1]
        /\ rows = last.arg[2]
        /\ ptmx = "open" => ptySize = << Uint16(last.arg[1]), Uint16(last.arg[2]) >>
        /\ last.reply # "false"

\* C13: a signal request sends the OS signal its name stands for (INT, TERM,
\* KILL, QUIT, HUP, one leading "SIG" dropped) iff the child is running; an
\* unknown name, a session without a child and a terminated child get
\* nothing; the reply is never false.
C13_Names ==
    { << <<"I","N","T">>, "SIGINT" >>, << <<"T","E","R","M">>, "SIGTERM" >>,
      << <<"K","I","L","L">>, "SIGKILL" >>, << <<"Q","U","I","T">>, "SIGQUIT" >>,
      << <<"H","U","P">>, "SIGHUP" >> }

C13_Bare(name) ==
    IF Len(name) >= 3 /\ name[1] = "S" /\ name[2] = "I" /\ name[3] = "G"
    THEN [i \in 1..(Len(name) - 3) |-> name[i + 3]]
    ELSE name

C13_Sent(name) == {n[2] : n \in {m \in C13_Names : m[1] = C13_Bare(name)}}

C13_SignalForwarding ==
    /\ [](\A s \in sigs : s[2] = "request" => s[1] \in {n[2] : n \in C13_Names})
    /\ [][ (nreq' # nreq /\ last'.type = "signal") =>
             /\ last'.reply # "false"
             /\ sigs' = IF child = "running"
                        THEN sigs \cup {<<s, "request">> : s \in C13_Sent(last'.arg)}
                        ELSE sigs ]_vars

C13_Witness ==
    /\ last.type = "signal"
    /\ last.arg = <<"S","I","G","I","N","T">>
    /\ last.reply = "true"
    /\ sigs = {<<"SIGINT", "request">>}
    /\ child = "exited"
    /\ term.kind = "signal"

\* C14: a channel open whose type is not "session" is rejected and gets no
\* handler, and the connection goes on serving channel opens.
C14_OnlySessionChannels ==
    /\ [](\A k \in DOMAIN chans :
            chans[k].type # "session" =>
                (chans[k].result = "rejected" /\ chans[k].h = "none" /\ ~chans[k].open))
    /\ [][ (Len(chans') > Len(chans) /\ chans'[Len(chans')].type # "session")
              => (conns' = conns /\ conns[chans'[Len(chans')].conn].pc = "serve") ]_vars

C14_Witness ==
    /\ Len(chans) = 2
    /\ chans[1].conn = chans[2].conn
    /\ chans[1].type = "direct-tcpip"
    /\ chans[1].result = "rejected"
    /\ chans[2].type = "session"
    /\ chans[2].result = "accepted"
    /\ chans[2].h = "loop"

\* C15: loadOrCreateHostKey writes the file only when there is none; an
\* existing file is never changed by a later run, and all runs that load a
\* key load the same one.
C15_HostKeyPersistence ==
    /\ [](\A i \in DOMAIN loads : loads[i].wrote => loads[i].found = NoFile)
    /\ [](\A i, j \in DOMAIN loads :
            (i < j /\ loads[i].signer # 0 /\ loads[j].signer # 0)
                => loads[j].signer = loads[i].signer)
    /\ [](\A i \in DOMAIN loads :
            (loads[i].found # NoFile /\ loads[i].signer # 0)
                => loads[i].signer = loads[i].found.key)
    /\ [][ hostKeyFile # NoFile => hostKeyFile' = hostKeyFile ]_vars

C15_Witness ==
    /\ Len(loads) = 3
    /\ loads[1].wrote
    /\ loads[1].signer = 1
    /\ loads[2].fail = "read"
    /\ loads[2].signer = 0
    /\ loads[3].found = [key |-> 1, whole |-> TRUE]
    /\ loads[3].signer = 1
    /\ hostKeyFile = [key |-> 1, whole |-> TRUE]

\* C16: when the start of a shell / exec fails (PTY allocation, stdin pipe,
\* process launch), the request is not replied true, no child handle is set
\* and no PTY master stays open.
C16_Fails(pty, fail) == fail \in (IF pty THEN {"pty", "exec"} ELSE {"pipe", "exec"})

C16_FailedStartUncommitted ==
    [][ (/\ nreq' # nreq
         /\ last'.type \in {"shell", "exec"}
         /\ last'.arg # << >>
         /\ cmd = "nil"
         /\ C16_Fails(wantPTY, last'.arg[1]))
            => /\ last'.reply # "true"
               /\ cmd' = "nil"
               /\ child' = "none"
               /\ nspawn' = nspawn
               /\ ptmx' # "open"
               /\ reaper' = "none" ]_vars

C16_Witness ==
    /\ last.type = "shell"
    /\ last.arg = <<"pty">>
    /\ last.reply = "false"
    /\ wantPTY
    /\ cmd = "nil"
    /\ ptmx = "nil"
    /\ nreq = 2

\* C17: every read and write of the session's fields is made while holding
\* the session mutex.
C17_MutexDiscipline == unlocked = {}

\* C18: at most one input pump reads the channel, and no client input is
\* consumed by the pump of a start that failed.
C18_SingleInputPump == inPumps <= 1 /\ lost = 0

\* C19: in a PTY session the PTY master is not closed (and exit-status not
\* sent) while output of the child is still unforwarded on an open channel.
C19_PtyOutputForwarded ==
    (ptmx = "closed" /\ chanOpen) => pending = 0

\* C20: once the child has exited and the channel has closed, every activity
\* of the session terminates, whether or not the cancellation signal fires.
C20_ActivitiesTerminate ==
    (child = "exited" /\ ~chanOpen)
        ~> (/\ inPumps = 0
            /\ outPump # "run"
            /\ reaper # "wait"
            /\ watcher # "wait")

====
